---------------------------- MODULE Spec2Model ----------------------------
(***************************************************************************)
(* Delivery route planner (src/app.py, src/app2.py, src/app3.py).          *)
(*                                                                         *)
(* Geometry.  A point is <<lat, lng>>.  All points of the model lie on one *)
(* meridian (lng = 0) and latitudes are given in meters of arc, so that    *)
(* the haversine great-circle distance of two points is exactly the        *)
(* absolute difference of their latitudes.  Arithmetic is exact (the       *)
(* code's floats are read as real numbers).                                *)
(***************************************************************************)
EXTENDS Integers, Sequences, FiniteSets, TLC

VARIABLES
    \* ---- get_interval_arrows (src/app3.py:47-64), one loop iteration a step
    path,             \* argument: the polyline, a sequence of points
    interval_meters,  \* argument: the interval
    seg_i,            \* the loop variable i (number of segments already done)
    dist_accum,       \* local dist_accum
    arrows,           \* local arrows: sequence of <<new_lat, new_lng, bearing>>
    ratios,           \* per emitted arrow: [seg, remaining, seg_dist] (the operands of ratio)
    a_pc,             \* "idle" | "loop" | "returned" | "raised"
    \* ---- one planning request: solve_vrp and the two read-back loops
    \*      (src/app3.py:112-133, 294-304, 337-368)
    dist_matrix,      \* the matrix handed to solve_vrp (row i+1, column j+1 for nodes i, j)
    num_vehicles,     \* the vehicle count handed to solve_vrp
    solution,         \* NoSolution, or the NextVar values: solution[index + 1]
    route_nodes,      \* per vehicle, the node indices read by the map loop
    route_distance,   \* per vehicle, route_distance of the manifest loop
    s_pc,             \* "idle" | "request" | "solved" | "no_solution" | "mapped" | "done"
    \* ---- the session of src/app3.py, one script run a step
    depot,            \* st.session_state.depot: <<>> (None) or <<location>>
    stops,            \* st.session_state.stops: sequence of locations
    vrp_data,         \* st.session_state.vrp_data: <<>> (None) or <<planning result>>
    errors,           \* the st.error messages of the last script run
    calls,            \* the calls of create_distance_matrix and solve_vrp of the last run
    \* ---- the text-area planner src/app.py (with errors and calls above),
    \*      one script run a step
    app,              \* "none" | "app" | "app3": the script that runs
    geocoded,         \* what get_coordinates returned and reported in the last run
    run_plan          \* src/app.py: the solution the last run displayed, <<>> if none

arrowVars == <<path, interval_meters, seg_i, dist_accum, arrows, ratios, a_pc>>

solveVars == <<dist_matrix, num_vehicles, solution, route_nodes, route_distance, s_pc>>

sessionVars == <<depot, stops, vrp_data, errors, calls>>

runVars == <<app, geocoded, run_plan>>

vars == <<arrowVars, solveVars, sessionVars, runVars>>

----------------------------------------------------------------------------
\* Bounds of the model.
MaxLat == 6          \* latitudes of polyline points range over 0..MaxLat
MaxPathLen == 3      \* polylines have at most MaxPathLen points
MaxInterval == 3     \* intervals range over -1..MaxInterval
MaxLocations == 3    \* a planning request has 2..MaxLocations locations (depot included)
MaxVehicles == 2     \* and 1..MaxVehicles vehicles
MaxSpecial == 2      \* at most MaxSpecial matrix elements are far or unreachable
MaxLines == 3        \* the text area holds 1..MaxLines lines
MaxStops == 2        \* the session holds at most MaxStops delivery stops
NearMeters == 1000       \* the driving distance of an ordinary pair
FarMeters == 1600000     \* the driving distance of a far pair

Abs(x) == IF x < 0 THEN -x ELSE x

Points == {<<lat, 0>> : lat \in 0..MaxLat}

SeqsUpTo(S, n) == UNION {[1..k -> S] : k \in 0..n}

----------------------------------------------------------------------------
\* src/app3.py:26-34.  On one meridian the great-circle distance is R * |dlat|,
\* which is |lat1 - lat2| when latitudes are measured in meters of arc.
haversine(coord1, coord2) == Abs(coord2[1] - coord1[1])

\* src/app3.py:36-45.  On one meridian the forward azimuth is 0 (north) or
\* 180 (south); atan2(0, 0) = 0 for coincident points.
calculate_bearing(coord1, coord2) == IF coord2[1] < coord1[1] THEN 180 ELSE 0

\* src/app3.py:50.  range(len(path) - 1): the number of loop iterations.
RangeLenOffByOne(p) == Len(p)
RangeLen(p) == IF Len(p) - 1 > 0 THEN Len(p) - 1 ELSE 0

\* src/app3.py:61.  The accumulator after a marker has been emitted.
AccumAfterArrowReset(seg_dist, remaining) == 0
AccumAfterArrow(seg_dist, remaining) == seg_dist - remaining

\* src/app3.py:51-63.  One iteration of the loop body on the local state
\* st = [dist_accum, arrows, ratios, raised], for loop index i (0-based).
\* path[i+1] past the end raises IndexError; remaining / seg_dist with
\* seg_dist = 0 raises ZeroDivisionError.  The body emits at most one arrow.
ArrowBody(st, p, interval, i) ==
    IF i + 2 > Len(p)
    THEN [st EXCEPT !.raised = TRUE]
    ELSE
    LET p1 == p[i + 1]
        p2 == p[i + 2]
        seg_dist == haversine(p1, p2)
    IN  IF st.dist_accum + seg_dist >= interval
        THEN LET remaining == interval - st.dist_accum
             IN  IF seg_dist = 0
                 THEN [st EXCEPT !.raised = TRUE]
                 ELSE LET new_lat == p1[1] + ((p2[1] - p1[1]) * remaining) \div seg_dist
                          new_lng == p1[2] + ((p2[2] - p1[2]) * remaining) \div seg_dist
                          bearing == calculate_bearing(p1, p2)
                      IN  [dist_accum |-> AccumAfterArrow(seg_dist, remaining),
                           arrows |-> Append(st.arrows, <<new_lat, new_lng, bearing>>),
                           ratios |-> Append(st.ratios,
                                        [seg |-> i, remaining |-> remaining,
                                         seg_dist |-> seg_dist]),
                           raised |-> FALSE]
        ELSE [st EXCEPT !.dist_accum = st.dist_accum + seg_dist]

\* src/app3.py:48-49.  The locals before the loop.
ArrowStart == [dist_accum |-> 0, arrows |-> <<>>, ratios |-> <<>>, raised |-> FALSE]

RECURSIVE ArrowLoop(_, _, _, _)
ArrowLoop(st, p, interval, i) ==
    IF st.raised \/ i >= RangeLen(p) THEN st
    ELSE ArrowLoop(ArrowBody(st, p, interval, i), p, interval, i + 1)

\* src/app3.py:47-64.  The whole call: the final locals (arrows is the
\* return value unless raised).
get_interval_arrows(p, interval) == ArrowLoop(ArrowStart, p, interval, 0)

----------------------------------------------------------------------------
\* The routing model solve_vrp builds, and the library calls that read a
\* solution back.  n is len(distance_matrix), k is num_vehicles; nodes are
\* 0..n-1 with the depot 0; vehicles are 0..k-1 as in the code.

\* src/app3.py:104.  The cost written for an element whose status is not OK.
Unreachable == 9999999

\* src/app3.py:125.  The capacity of the 'Distance' dimension (slack 0, start
\* cumul fixed to zero): the cumulated distance at every node of a route,
\* its end included, is at most this.
DimensionCapacityTenfold == 10 * 3000000
DimensionCapacity == 3000000

\* src/app3.py:113.  RoutingIndexManager(n, k, 0): node i has index i, vehicle
\* 0 starts at index 0 (the depot's), every further vehicle gets a start index
\* of its own after the nodes, and every vehicle an end index after those.
Size(n, k) == n + k - 1
Start(n, k, vehicle_id) == IF vehicle_id = 0 THEN 0 ELSE n + vehicle_id - 1
End(n, k, vehicle_id) == n + k - 1 + vehicle_id

\* src/app3.py:298.  routing.IsEnd(index).
IsEnd(n, k, index) == index >= Size(n, k)

\* src/app3.py:299.  manager.IndexToNode(index): start and end indices are the depot.
IndexToNode(n, index) == IF index < n THEN index ELSE 0

\* src/app3.py:116-119.  distance_callback.
distance_callback(D, n, from_index, to_index) ==
    D[IndexToNode(n, from_index) + 1][IndexToNode(n, to_index) + 1]

\* src/app3.py:362.  routing.GetArcCostForVehicle(previous_index, index, vehicle_id):
\* the arc cost evaluator of line 122, and 0 for an arc from an index to itself.
GetArcCostForVehicleReversed(D, n, from_index, to_index) ==
    IF from_index = to_index THEN 0 ELSE distance_callback(D, n, to_index, from_index)
GetArcCostForVehicle(D, n, from_index, to_index) ==
    IF from_index = to_index THEN 0 ELSE distance_callback(D, n, from_index, to_index)

NoSolution == <<>>

\* src/app3.py:301.  solution.Value(routing.NextVar(index)).
NextValue(sol, index) == sol[index + 1]

RECURSIVE SumLegs(_, _)
\* Sum of the matrix entries D[a][b] over the consecutive pairs of a node sequence.
SumLegs(D, r) ==
    IF Len(r) < 2 THEN 0
    ELSE D[r[1] + 1][r[2] + 1] + SumLegs(D, Tail(r))

\* The orders in which the members of S can be visited.
Perms(S) ==
    {f \in [1..Cardinality(S) -> S] : \A a, b \in 1..Cardinality(S) : f[a] = f[b] => a = b}

\* The ways to cut a sequence of m stops into k consecutive (possibly empty) parts:
\* c[v] is the number of stops of the first v parts.
Cuts(m, k) ==
    {c \in [0..k -> 0..m] :
        /\ c[0] = 0
        /\ c[k] = m
        /\ \A v \in 1..k : c[v - 1] <= c[v]}

\* src/app3.py:113-114.  What the routing model (no disjunctions, one depot)
\* admits structurally: every stop 1..n-1 on exactly one of the k vehicles, in
\* some order.  rs[v + 1] is the sequence of stops of vehicle v.
AllRoutings(n, k) ==
    {[v \in 1..k |-> SubSeq(perm, c[v - 1] + 1, c[v])] :
        perm \in Perms(1..(n - 1)), c \in Cuts(n - 1, k)}

\* The tour of a vehicle: depot, its stops, depot.
Tour(visited) == <<0>> \o visited \o <<0>>

\* src/app3.py:124-126.  The 'Distance' dimension holds on a routing: along every
\* vehicle's tour the cumulated transit stays within the capacity.  Transits
\* are not negative, so this is the cumul at the tour's end.
WithinCapacityUnbounded(D, rs) == \A v \in 1..Len(rs) : SumLegs(D, Tour(rs[v])) >= 0
WithinCapacity(D, rs) ==
    \A v \in 1..Len(rs) : SumLegs(D, Tour(rs[v])) <= DimensionCapacity

\* The NextVar values of a routing: the successor index of every start and node.
NextOf(rs, n, k) ==
    [idx \in 1..Size(n, k) |->
        LET index == idx - 1
            isStart == index = 0 \/ index >= n
            vehicle_id == IF index = 0 THEN 0 ELSE index - n + 1
        IN  IF isStart
            THEN IF rs[vehicle_id + 1] = <<>> THEN End(n, k, vehicle_id)
                 ELSE rs[vehicle_id + 1][1]
            ELSE LET v == CHOOSE w \in 1..k : \E q \in 1..Len(rs[w]) : rs[w][q] = index
                     q == CHOOSE q \in 1..Len(rs[v]) : rs[v][q] = index
                 IN  IF q = Len(rs[v]) THEN End(n, k, v - 1) ELSE rs[v][q + 1]]

\* src/app3.py:112-133.  The outcomes of solve_vrp(distance_matrix, num_vehicles):
\* any assignment the routing model admits, or no solution when it admits none.
\* Which admitted assignment the search (PATH_CHEAPEST_ARC, then the library's
\* local search on arc costs + 100 * span) returns is left open.
solve_vrp(D, k) ==
    LET n == Len(D)
        admitted == {rs \in AllRoutings(n, k) : WithinCapacity(D, rs)}
    IN  IF admitted = {} THEN {NoSolution}
        ELSE {NextOf(rs, n, k) : rs \in admitted}

RECURSIVE WalkNodes(_, _, _, _, _)
\* src/app3.py:298-301.  The while loop of the map loop from `index` on: the
\* nodes appended until an end index is reached.  `fuel` bounds the walk.
WalkNodes(sol, n, k, index, fuel) ==
    IF IsEnd(n, k, index) \/ fuel = 0 THEN <<>>
    ELSE <<IndexToNode(n, index)>>
             \o WalkNodes(sol, n, k, NextValue(sol, index), fuel - 1)

RECURSIVE WalkEnd(_, _, _, _, _)
\* The index at which that while loop stops.
WalkEnd(sol, n, k, index, fuel) ==
    IF IsEnd(n, k, index) \/ fuel = 0 THEN index
    ELSE WalkEnd(sol, n, k, NextValue(sol, index), fuel - 1)

\* src/app3.py:295-304.  The map loop's read-back of one vehicle: the nodes of
\* the while loop, then the node of the end index.
ExtractRouteNoReturn(sol, n, k, vehicle_id) ==
    WalkNodes(sol, n, k, Start(n, k, vehicle_id), Size(n, k))
ExtractRoute(sol, n, k, vehicle_id) ==
    WalkNodes(sol, n, k, Start(n, k, vehicle_id), Size(n, k))
        \o <<IndexToNode(n, WalkEnd(sol, n, k, Start(n, k, vehicle_id), Size(n, k)))>>

RECURSIVE WalkDistance(_, _, _, _, _, _)
\* src/app3.py:345-362.  The while loop of the manifest loop from `index` on:
\* the arc costs added to route_distance.
WalkDistance(D, sol, n, k, index, fuel) ==
    IF IsEnd(n, k, index) \/ fuel = 0 THEN 0
    ELSE LET previous_index == index
             next_index == NextValue(sol, index)
         IN  GetArcCostForVehicle(D, n, previous_index, next_index)
                 + WalkDistance(D, sol, n, k, next_index, fuel - 1)

\* src/app3.py:339-368.  route_distance of one vehicle in the manifest.
ManifestDistance(D, sol, n, k, vehicle_id) ==
    WalkDistance(D, sol, n, k, Start(n, k, vehicle_id), Size(n, k))

----------------------------------------------------------------------------
\* The variables of a part of the program that a specification does not run.
ArrowsIdle ==
    /\ path = <<>>
    /\ interval_meters = 0
    /\ seg_i = 0
    /\ dist_accum = 0
    /\ arrows = <<>>
    /\ ratios = <<>>
    /\ a_pc = "idle"

SolveIdle ==
    /\ dist_matrix = <<>>
    /\ num_vehicles = 0
    /\ solution = <<>>
    /\ route_nodes = <<>>
    /\ route_distance = <<>>
    /\ s_pc = "idle"

SessionIdle ==
    /\ depot = <<>>
    /\ stops = <<>>
    /\ vrp_data = <<>>
    /\ errors = {}
    /\ calls = <<>>

NoGeocoding ==
    [raw_list |-> <<>>, outcome |-> <<>>, addresses |-> <<>>, coords |-> <<>>,
     reports |-> <<>>]

RunIdle ==
    /\ geocoded = NoGeocoding
    /\ run_plan = <<>>

----------------------------------------------------------------------------
\* get_interval_arrows run one iteration at a time.

InitArrows ==
    /\ path \in SeqsUpTo(Points, MaxPathLen)
    /\ interval_meters \in (-1)..MaxInterval
    /\ seg_i = 0
    /\ dist_accum = ArrowStart.dist_accum
    /\ arrows = ArrowStart.arrows
    /\ ratios = ArrowStart.ratios
    /\ a_pc = "loop"
    /\ app = "none"
    /\ SolveIdle
    /\ SessionIdle
    /\ RunIdle

\* One iteration of `for i in range(len(path) - 1)`.
ArrowIterate ==
    /\ a_pc = "loop"
    /\ seg_i < RangeLen(path)
    /\ LET st == ArrowBody([dist_accum |-> dist_accum, arrows |-> arrows,
                            ratios |-> ratios, raised |-> FALSE],
                           path, interval_meters, seg_i)
       IN  /\ dist_accum' = st.dist_accum
           /\ arrows' = st.arrows
           /\ ratios' = st.ratios
           /\ a_pc' = IF st.raised THEN "raised" ELSE "loop"
           /\ seg_i' = IF st.raised THEN seg_i ELSE seg_i + 1
    /\ UNCHANGED <<path, interval_meters>>
    /\ UNCHANGED <<solveVars, sessionVars, runVars>>

\* `return arrows` once the range is exhausted.
ArrowReturn ==
    /\ a_pc = "loop"
    /\ seg_i >= RangeLen(path)
    /\ a_pc' = "returned"
    /\ UNCHANGED <<path, interval_meters, seg_i, dist_accum, arrows, ratios>>
    /\ UNCHANGED <<solveVars, sessionVars, runVars>>

NextArrows == ArrowIterate \/ ArrowReturn

SpecArrows == InitArrows /\ [][NextArrows]_vars

----------------------------------------------------------------------------
\* One planning request from the distance matrix on: solve_vrp, then the map
\* loop and the manifest loop over the vehicles.

OffDiagonal(n) == {<<i, j>> \in (1..n) \X (1..n) : i # j}

\* src/app3.py:97-110.  The matrices create_distance_matrix can return for n
\* locations: 0 on the diagonal, elsewhere the element's distance value, or
\* the sentinel for an element whose status is not OK.
Matrices(n) ==
    UNION {
        {[i \in 1..n |-> [j \in 1..n |->
              IF i = j THEN 0
              ELSE IF <<i, j>> \in special THEN val[<<i, j>>] ELSE NearMeters]] :
            val \in [special -> {FarMeters, Unreachable}]} :
        special \in {S \in SUBSET OffDiagonal(n) : Cardinality(S) <= MaxSpecial}}

InitSolve ==
    /\ \E n \in 2..MaxLocations : dist_matrix \in Matrices(n)
    /\ num_vehicles \in 1..MaxVehicles
    /\ solution = NoSolution
    /\ route_nodes = <<>>
    /\ route_distance = <<>>
    /\ s_pc = "request"
    /\ app = "none"
    /\ ArrowsIdle
    /\ SessionIdle
    /\ RunIdle

\* src/app3.py:232-244.  The call of solve_vrp and the branch on its result:
\* "no_solution" is st.error("No solution found.").
Solve ==
    /\ s_pc = "request"
    /\ \E sol \in solve_vrp(dist_matrix, num_vehicles) :
          /\ solution' = sol
          /\ s_pc' = IF sol = NoSolution THEN "no_solution" ELSE "solved"
    /\ UNCHANGED <<dist_matrix, num_vehicles, route_nodes, route_distance>>
    /\ UNCHANGED <<arrowVars, sessionVars, runVars>>

\* src/app3.py:294-304.  The map loop: every vehicle's route read back.
MapLoop ==
    /\ s_pc = "solved"
    /\ route_nodes' = [v \in 1..num_vehicles |->
                          ExtractRoute(solution, Len(dist_matrix), num_vehicles, v - 1)]
    /\ s_pc' = "mapped"
    /\ UNCHANGED <<dist_matrix, num_vehicles, solution, route_distance>>
    /\ UNCHANGED <<arrowVars, sessionVars, runVars>>

\* src/app3.py:337-369.  The manifest loop: every vehicle's route_distance.
ManifestLoop ==
    /\ s_pc = "mapped"
    /\ route_distance' = [v \in 1..num_vehicles |->
                             ManifestDistance(dist_matrix, solution, Len(dist_matrix),
                                              num_vehicles, v - 1)]
    /\ s_pc' = "done"
    /\ UNCHANGED <<dist_matrix, num_vehicles, solution, route_nodes>>
    /\ UNCHANGED <<arrowVars, sessionVars, runVars>>

NextSolve == Solve \/ MapLoop \/ ManifestLoop

SpecSolve == InitSolve /\ [][NextSolve]_vars

----------------------------------------------------------------------------
\* The session of src/app3.py.  A step is one user action: the script run it
\* triggers (with the rerun that st.rerun() starts).  Every run ends with the
\* visualization, which changes no session state: what it displays is the
\* function Visualization of the state the run leaves, of the run's error
\* messages and of the path service's answers during the run.

\* What the user types: the texts the geocoder knows.
AddressTexts == {"a", "b"}

\* The place the geocoder finds for a text: 7000 m of arc lie between the two.
Place(text) ==
    IF text = "a" THEN [address |-> "A St", coords |-> <<0, 0>>]
    ELSE [address |-> "B Rd", coords |-> <<7000, 0>>]

\* src/app3.py:68-78.  The outcomes of validate_and_get_geocode for a
\* non-empty text: <<formatted, coords>> found, or <<>> for (None, None),
\* returned for an empty result and, after st.error, for an exception.
validate_and_get_geocode(text) == {<<>>, <<Place(text)>>}

\* src/app3.py:318.  The interval the visualization asks arrows for.
IntervalMeters == 3000

\* src/app3.py:212.  The "Vehicles" number input: its min_value and the value
\* it shows first.  The user plans with one of the two (the input allows up to 4).
MinVehicles == 1
DefaultVehicles == 2
VehicleInputs == {MinVehicles, DefaultVehicles}

NoMatrix == <<>>

\* The driving distances of the model's road network: the road is the
\* meridian, and the locations in `cut` cannot be reached or left.
RoadMatrix(coords, cut) ==
    [i \in 1..Len(coords) |-> [j \in 1..Len(coords) |->
        IF i = j THEN 0
        ELSE IF i \in cut \/ j \in cut THEN Unreachable
        ELSE haversine(coords[i], coords[j])]]

\* src/app3.py:97-110.  The outcomes of create_distance_matrix(coords): None
\* after an exception, or the matrix of the response, here with every
\* element OK or with the last location cut off.
create_distance_matrix(coords) ==
    {NoMatrix, RoadMatrix(coords, {}), RoadMatrix(coords, {Len(coords)})}

RECURSIVE Densify(_)
\* A road geometry through the waypoints in their order: every leg's midpoint added.
Densify(route_coords) ==
    IF Len(route_coords) < 2 THEN route_coords
    ELSE <<route_coords[1],
           <<(route_coords[1][1] + route_coords[2][1]) \div 2, route_coords[1][2]>> >>
             \o Densify(Tail(route_coords))

\* src/app3.py:80-95.  get_route_polyline: [] for fewer than 2 points and
\* after an exception, None for an empty result (`fails`: both are falsy),
\* else the decoded polyline of the directions found.
get_route_polyline(route_coords, fails) ==
    IF Len(route_coords) < 2 THEN <<>>
    ELSE IF fails THEN <<>>
    ELSE Densify(route_coords)

\* src/app3.py:308.  detailed_path if detailed_path else vehicle_route_coords.
PathToDraw(detailed_path, vehicle_route_coords) ==
    IF detailed_path # <<>> THEN detailed_path ELSE vehicle_route_coords

\* src/app3.py:295-304.  vehicle_route_coords of one vehicle.
VehicleRouteCoords(vd, vehicle_id) ==
    LET nodes == ExtractRoute(vd.solution, Len(vd.coords), vd.num_vehicles, vehicle_id)
    IN  [q \in 1..Len(nodes) |-> vd.coords[nodes[q] + 1]]

RECURSIVE DrawVehicles(_, _, _, _)
\* src/app3.py:294-330.  The map loop from vehicle_id on.  acc.paths are the
\* polylines added to the map, acc.markers the arrows added per vehicle,
\* acc.asked the vehicles whose path was asked of the service; an exception
\* of get_interval_arrows ends the script run (acc.crashed).
DrawVehicles(vd, failing, vehicle_id, acc) ==
    IF vehicle_id >= vd.num_vehicles THEN acc
    ELSE LET vehicle_route_coords == VehicleRouteCoords(vd, vehicle_id)
             detailed_path == get_route_polyline(vehicle_route_coords,
                                                 vehicle_id \in failing)
             path_to_draw == PathToDraw(detailed_path, vehicle_route_coords)
             arrow_points == get_interval_arrows(path_to_draw, IntervalMeters)
             drawn == [acc EXCEPT !.paths = Append(acc.paths, path_to_draw),
                                  !.asked = acc.asked \cup {vehicle_id}]
         IN  IF arrow_points.raised
             THEN [drawn EXCEPT !.crashed = TRUE]
             ELSE DrawVehicles(vd, failing, vehicle_id + 1,
                               [drawn EXCEPT !.markers =
                                   Append(acc.markers, arrow_points.arrows)])

\* src/app3.py:248-373.  The visualization at the end of a script run:
\* errs are the st.error messages of the run, failing the vehicles for
\* which the path service fails in this run.
\*   success   the banner "Routes planned for ... stops!"
\*   failed    the vehicles whose path the service failed to give
\*   paths     the polylines added to the map, in vehicle order
\*   markers   the arrows added to the map, per vehicle
\*   map_shown st_folium(m) was reached
\*   manifest  route_distance per vehicle, <<>> when the manifest is not reached
\*   crashed   the run ended with an uncaught exception
\*   info      the hint to set a depot
Visualization(vd_opt, dep, failing, errs) ==
    IF vd_opt = <<>>
    THEN [errors |-> errs, success |-> FALSE, failed |-> {}, paths |-> <<>>,
          markers |-> <<>>, map_shown |-> FALSE, manifest |-> <<>>,
          crashed |-> FALSE, info |-> dep = <<>>]
    ELSE LET vd == vd_opt[1]
             m == DrawVehicles(vd, failing, 0,
                               [paths |-> <<>>, markers |-> <<>>, asked |-> {},
                                crashed |-> FALSE])
         IN  [errors |-> errs, success |-> TRUE,
              failed |-> failing \cap m.asked,
              paths |-> m.paths, markers |-> m.markers,
              map_shown |-> ~m.crashed,
              manifest |-> IF m.crashed THEN <<>>
                           ELSE [v \in 1..vd.num_vehicles |->
                                    ManifestDistance(vd.matrix, vd.solution,
                                                     Len(vd.coords), vd.num_vehicles,
                                                     v - 1)],
              crashed |-> m.crashed, info |-> FALSE]

\* The vehicles of the stored result, for which a run asks the path service.
VehiclesOf(vd_opt) == IF vd_opt = <<>> THEN {} ELSE 0..(vd_opt[1].num_vehicles - 1)

\* src/app3.py:17-22 and the first script run.
InitSession ==
    /\ depot = <<>>
    /\ stops = <<>>
    /\ vrp_data = <<>>
    /\ errors = {}
    /\ calls = <<>>
    /\ app = "app3"
    /\ ArrowsIdle
    /\ SolveIdle
    /\ RunIdle

\* src/app3.py:153-166.  "Set Depot" with a non-empty text, shown while no depot is set.
SetDepot ==
    /\ app = "app3"
    /\ depot = <<>>
    /\ \E depot_input \in AddressTexts :
       \E found \in validate_and_get_geocode(depot_input) :
          IF found # <<>>
          THEN /\ depot' = <<[name |-> depot_input, address |-> found[1].address,
                              coords |-> found[1].coords]>>
               /\ errors' = {}
          ELSE /\ depot' = depot
               /\ errors' = {"Address not found."}
    /\ calls' = <<>>
    /\ UNCHANGED <<stops, vrp_data>>
    /\ UNCHANGED <<arrowVars, solveVars, runVars>>

\* src/app3.py:167-172.  "Change Depot", shown while a depot is set.
ChangeDepot ==
    /\ app = "app3"
    /\ depot # <<>>
    /\ depot' = <<>>
    /\ errors' = {}
    /\ calls' = <<>>
    /\ UNCHANGED <<stops, vrp_data>>
    /\ UNCHANGED <<arrowVars, solveVars, runVars>>

\* src/app3.py:178-193.  "Add Stop" with a non-empty text.
AddStop ==
    /\ app = "app3"
    /\ Len(stops) < MaxStops
    /\ \E new_stop_input \in AddressTexts :
       \E found \in validate_and_get_geocode(new_stop_input) :
          IF found # <<>>
          THEN /\ stops' = Append(stops, [name |-> new_stop_input,
                                          address |-> found[1].address,
                                          coords |-> found[1].coords])
               /\ errors' = {}
          ELSE /\ stops' = stops
               /\ errors' = {"Could not find that location."}
    /\ calls' = <<>>
    /\ UNCHANGED <<depot, vrp_data>>
    /\ UNCHANGED <<arrowVars, solveVars, runVars>>

\* src/app3.py:197-205.  The delete button of stop i (0-based).
DeleteStop ==
    /\ app = "app3"
    /\ \E i \in 0..(Len(stops) - 1) :
          stops' = SubSeq(stops, 1, i) \o SubSeq(stops, i + 2, Len(stops))
    /\ errors' = {}
    /\ calls' = <<>>
    /\ UNCHANGED <<depot, vrp_data>>
    /\ UNCHANGED <<arrowVars, solveVars, runVars>>

\* src/app3.py:207-209.  "Clear All Stops", shown while there are stops.
ClearStops ==
    /\ app = "app3"
    /\ stops # <<>>
    /\ stops' = <<>>
    /\ errors' = {}
    /\ calls' = <<>>
    /\ UNCHANGED <<depot, vrp_data>>
    /\ UNCHANGED <<arrowVars, solveVars, runVars>>

\* src/app3.py:219, 221.  The two guards of the plan handler.
NoDepot(dep) == dep = <<>>
NoStopsNever(stop_list) == FALSE
NoStops(stop_list) == stop_list = <<>>

\* The stored result with the solution and matrix replaced in the result
\* already there.
StoredResultPatched(name_list, address_list, coords_list, dist, sol, k) ==
    IF vrp_data = <<>>
    THEN <<[names |-> name_list, addresses |-> address_list,
            coords |-> coords_list, matrix |-> dist, solution |-> sol,
            num_vehicles |-> k]>>
    ELSE <<[vrp_data[1] EXCEPT !.matrix = dist, !.solution = sol,
                               !.num_vehicles = k]>>

\* src/app3.py:234-242.  st.session_state.vrp_data = {...}: a new dictionary
\* (matrix stands for manager and routing, which are built from it).
StoredResult(name_list, address_list, coords_list, dist, sol, k) ==
    <<[names |-> name_list, addresses |-> address_list, coords |-> coords_list,
       matrix |-> dist, solution |-> sol, num_vehicles |-> k]>>

\* src/app3.py:218-244, then the visualization.  "Plan Route" with
\* num_vehicles = k in the number input.
PlanRoute ==
    /\ app = "app3"
    /\ \E k \in VehicleInputs :
       IF NoDepot(depot)
       THEN /\ vrp_data' = vrp_data
            /\ calls' = <<>>
            /\ errors' = {"Please set a Depot first."}
       ELSE IF NoStops(stops)
       THEN /\ vrp_data' = vrp_data
            /\ calls' = <<>>
            /\ errors' = {"Please add at least one delivery stop."}
       ELSE
       LET all_stops == depot \o stops
           coords_list == [q \in 1..Len(all_stops) |-> all_stops[q].coords]
           address_list == [q \in 1..Len(all_stops) |-> all_stops[q].address]
           name_list == [q \in 1..Len(all_stops) |-> all_stops[q].name]
           matrix_call == [fn |-> "create_distance_matrix",
                           n |-> Len(coords_list), k |-> k]
       IN  \E dist \in create_distance_matrix(coords_list) :
           IF dist = NoMatrix
           THEN /\ vrp_data' = vrp_data
                /\ calls' = <<matrix_call>>
                /\ errors' = {"Distance Matrix Error"}
           ELSE \E sol \in solve_vrp(dist, k) :
                /\ calls' = <<matrix_call,
                              [fn |-> "solve_vrp", n |-> Len(dist), k |-> k]>>
                /\ IF sol # NoSolution
                   THEN /\ vrp_data' = StoredResult(name_list, address_list,
                                                     coords_list, dist, sol, k)
                        /\ errors' = {}
                   ELSE /\ vrp_data' = vrp_data
                        /\ errors' = {"No solution found."}
    /\ UNCHANGED <<depot, stops>>
    /\ UNCHANGED <<arrowVars, solveVars, runVars>>

\* Any other interaction (the map, the number input): the script runs again.
Rerun ==
    /\ app = "app3"
    /\ errors' = {}
    /\ calls' = <<>>
    /\ UNCHANGED <<depot, stops, vrp_data>>
    /\ UNCHANGED <<arrowVars, solveVars, runVars>>

Next == SetDepot \/ ChangeDepot \/ AddStop \/ DeleteStop \/ ClearStops \/ PlanRoute \/ Rerun

Spec == InitSession /\ [][Next]_vars

----------------------------------------------------------------------------
\* The text-area planner src/app.py.  It keeps no session state: a step is a
\* press of "Plan Routes" on a page that shows no result, or any other rerun,
\* which shows the page without a result again.  (A press on a page that shows
\* a result runs the same script on the same state as a press after a rerun.)

\* A line of the text area: an address the geocoder knows or a blank line.
LineTexts == AddressTexts \cup {" "}

\* src/app.py:24.  not addr.strip()
Blank(addr) == addr = "" \/ addr = " "

\* src/app.py:137.  address_input.split('\n'): at least one line.
RawLists == UNION {[1..len -> LineTexts] : len \in 1..MaxLines}

\* src/app.py:26-34.  What gmaps.geocode does for each line of a list: a
\* result, an empty result, or an exception ("skipped" for a line never asked).
GeocodeOutcomes(raw_list) ==
    {o \in [1..Len(raw_list) -> {"skipped", "found", "empty", "exception"}] :
        \A i \in 1..Len(raw_list) : (o[i] = "skipped") <=> Blank(raw_list[i])}

RECURSIVE GetCoordinatesFrom(_, _, _, _)
\* src/app.py:23-35.  The loop of get_coordinates from line i (1-based) on.
GetCoordinatesFrom(raw_list, outcome, i, acc) ==
    IF i > Len(raw_list) THEN acc
    ELSE LET addr == raw_list[i]
         IN  GetCoordinatesFrom(raw_list, outcome, i + 1,
                 IF Blank(addr) THEN acc
                 ELSE IF outcome[i] = "found"
                 THEN [acc EXCEPT !.coords = Append(acc.coords, Place(addr).coords),
                                  !.addresses = Append(acc.addresses, addr)]
                 ELSE IF outcome[i] = "empty"
                 THEN [acc EXCEPT !.reports =
                          Append(acc.reports, <<"Could not find", addr>>)]
                 ELSE [acc EXCEPT !.reports =
                          Append(acc.reports, <<"Error geocoding", addr>>)])

\* src/app.py:16-37.  get_coordinates(addresses, gmaps): valid_addresses and
\* coords as returned, and the warnings and errors shown on the way (with
\* the list it was called on and what the geocoder did for each line).
get_coordinates(raw_list, outcome) ==
    GetCoordinatesFrom(raw_list, outcome, 1,
                       [raw_list |-> raw_list, outcome |-> outcome,
                        addresses |-> <<>>, coords |-> <<>>, reports |-> <<>>])

\* src/app.py:122.  num_vehicles = 2
AppVehicles == 2

\* src/app.py:141.  len(addresses) < 2
TooFewAddressesBelowOne(valid_addresses) == Len(valid_addresses) < 1
TooFewAddresses(valid_addresses) == Len(valid_addresses) < 2

InitRun ==
    /\ app = "app"
    /\ geocoded = NoGeocoding
    /\ run_plan = <<>>
    /\ errors = {}
    /\ calls = <<>>
    /\ depot = <<>>
    /\ stops = <<>>
    /\ vrp_data = <<>>
    /\ ArrowsIdle
    /\ SolveIdle

\* src/app.py:134-221.  The run once the API key is there.
RunWithKey ==
    \E raw_list \in RawLists :
       \E outcome \in GeocodeOutcomes(raw_list) :
       LET got == get_coordinates(raw_list, outcome)
           matrix_call == [fn |-> "create_distance_matrix",
                           n |-> Len(got.coords), k |-> AppVehicles]
       IN  /\ geocoded' = got
           /\ IF TooFewAddresses(got.addresses)
              THEN /\ errors' = {"Please enter at least 2 valid addresses."}
                   /\ calls' = <<>>
                   /\ run_plan' = <<>>
              ELSE \E dist \in create_distance_matrix(got.coords) :
                   IF dist = NoMatrix
                   THEN /\ errors' = {"Failed to generate distance matrix."}
                        /\ calls' = <<matrix_call>>
                        /\ run_plan' = <<>>
                   ELSE \E sol \in solve_vrp(dist, AppVehicles) :
                        /\ calls' = <<matrix_call,
                                      [fn |-> "solve_vrp", n |-> Len(dist),
                                       k |-> AppVehicles]>>
                        /\ IF sol # NoSolution
                           THEN /\ errors' = {}
                                /\ run_plan' = <<[addresses |-> got.addresses,
                                                  coords |-> got.coords,
                                                  matrix |-> dist,
                                                  solution |-> sol,
                                                  num_vehicles |-> AppVehicles]>>
                           ELSE /\ errors' = {"No solution found."}
                                /\ run_plan' = <<>>

\* The page shows no result and no message of a run.
PageBlank == geocoded = NoGeocoding /\ errors = {}

\* src/app.py:129-221.  "Plan Routes" with the text area holding raw_list.
RunButton ==
    /\ app = "app"
    /\ PageBlank
    /\ \/ /\ errors' = {"Please provide a Google Maps API Key in secrets or the sidebar."}
          /\ geocoded' = NoGeocoding
          /\ calls' = <<>>
          /\ run_plan' = <<>>
       \/ RunWithKey
    /\ UNCHANGED <<app, depot, stops, vrp_data>>
    /\ UNCHANGED <<arrowVars, solveVars>>

\* Any rerun without the button: the page shows no result.
RerunApp ==
    /\ app = "app"
    /\ ~PageBlank
    /\ geocoded' = NoGeocoding
    /\ run_plan' = <<>>
    /\ errors' = {}
    /\ calls' = <<>>
    /\ UNCHANGED <<app, depot, stops, vrp_data>>
    /\ UNCHANGED <<arrowVars, solveVars>>

NextRun == RunButton \/ RerunApp

SpecRun == InitRun /\ [][NextRun]_vars

\* The planners together: the script is src/app3.py or src/app.py.
InitPlanners == InitSession \/ InitRun

NextPlanners == Next \/ NextRun

SpecPlanners == InitPlanners /\ [][NextPlanners]_vars

----------------------------------------------------------------------------
\* Quantities the claims about get_interval_arrows speak of.

RECURSIVE PrefixLen(_, _)
\* Sum of the lengths of the first n segments of polyline p.
PrefixLen(p, n) ==
    IF n <= 0 THEN 0 ELSE PrefixLen(p, n - 1) + haversine(p[n], p[n + 1])

TotalLen(p) == PrefixLen(p, RangeLen(p))

\* A straight polyline: the points advance in one direction along the meridian.
Straight(p) ==
    \/ \A k \in 1..(Len(p) - 1) : p[k][1] <= p[k + 1][1]
    \/ \A k \in 1..(Len(p) - 1) : p[k][1] >= p[k + 1][1]

----------------------------------------------------------------------------
\* Quantities the claims about a planning request speak of.

\* The number of places (vehicle, position) at which node x occurs in the routes.
Occurrences(rts, x) ==
    Cardinality({<<v, q>> \in (1..Len(rts)) \X (1..(MaxLocations + 2)) :
                    q <= Len(rts[v]) /\ rts[v][q] = x})

\* Some leg of the node sequence r costs the sentinel.
HasSentinelLeg(D, r) ==
    \E q \in 1..(Len(r) - 1) : D[r[q] + 1][r[q + 1] + 1] = Unreachable

\* Every way of giving all stops to the k vehicles has a tour with a sentinel leg.
SentinelUnavoidable(D, k) ==
    \A rs \in AllRoutings(Len(D), k) : \E v \in 1..k : HasSentinelLeg(D, Tour(rs[v]))

----------------------------------------------------------------------------
\* C1: whenever solve_vrp returns a solution (N >= 2 locations, K >= 1
\* vehicles), the map loop reads back exactly K routes, each starting and ending
\* at the depot 0, and every stop 1..N-1 occurs exactly once over all routes.
C1_RoutesPartitionStops ==
    s_pc \in {"mapped", "done"} =>
        /\ Len(route_nodes) = num_vehicles
        /\ \A v \in 1..Len(route_nodes) :
              /\ Len(route_nodes[v]) >= 2
              /\ route_nodes[v][1] = 0
              /\ route_nodes[v][Len(route_nodes[v])] = 0
        /\ \A x \in 1..(Len(dist_matrix) - 1) : Occurrences(route_nodes, x) = 1

\* C1 witness: two vehicles and two stops read back, one vehicle without a
\* stop and one visiting both.
C1_Witness ==
    /\ s_pc = "mapped"
    /\ num_vehicles = 2
    /\ route_nodes = <<(<<0, 0>>), (<<0, 2, 1, 0>>)>>

\* C2: the route distance the manifest reports for a vehicle is the sum of the
\* matrix entries D[a][b] over the consecutive pairs (a, b) of the route read
\* back for that vehicle, the leg back to the depot included.
C2_ManifestDistanceIsSumOfLegs ==
    s_pc = "done" =>
        \A v \in 1..num_vehicles :
            route_distance[v] = SumLegs(dist_matrix, route_nodes[v])

\* C2 witness: a finished manifest with a vehicle that visits two stops over
\* one far leg and two ordinary ones.
C2_Witness ==
    /\ s_pc = "done"
    /\ \E v \in 1..num_vehicles :
          /\ Len(route_nodes[v]) = 4
          /\ route_distance[v] = FarMeters + 2 * NearMeters

\* C3: when every way of giving all stops to the K vehicles has a sentinel
\* leg, planning ends with "No solution found"; and no route of a returned
\* solution has a leg whose matrix cost is the sentinel.
C3_SentinelNeverRouted ==
    /\ (s_pc \notin {"idle", "request"}
          /\ SentinelUnavoidable(dist_matrix, num_vehicles))
           => s_pc = "no_solution"
    /\ s_pc \in {"solved", "mapped", "done"} =>
           \A index \in 0..(Size(Len(dist_matrix), num_vehicles) - 1) :
               distance_callback(dist_matrix, Len(dist_matrix), index,
                                 NextValue(solution, index)) # Unreachable
    /\ s_pc \in {"mapped", "done"} =>
           \A v \in 1..Len(route_nodes) : ~HasSentinelLeg(dist_matrix, route_nodes[v])

\* C3 witness: planning has ended with "No solution found" for three locations
\* of which only one pair is marked unreachable, in both directions, so that
\* with one vehicle the sentinel cannot be avoided.
C3_Witness ==
    /\ s_pc = "no_solution"
    /\ Len(dist_matrix) = 3
    /\ num_vehicles = 1
    /\ dist_matrix[2][3] = Unreachable
    /\ dist_matrix[3][2] = Unreachable
    /\ SentinelUnavoidable(dist_matrix, num_vehicles)

----------------------------------------------------------------------------
\* C4: a planning request with fewer than 2 locations or fewer than 1 vehicle
\* is rejected before any computation: every call of create_distance_matrix
\* or solve_vrp a run makes is for at least 2 locations and at least 1 vehicle.
C4_NoComputationOnInfeasibleInput ==
    \A q \in 1..Len(calls) : calls[q].n >= 2 /\ calls[q].k >= 1

\* C4 witness: "Plan Route" was pressed with a depot and no stop; the run
\* reported the missing stop and called neither function.
C4_Witness ==
    /\ depot # <<>>
    /\ stops = <<>>
    /\ errors = {"Please add at least one delivery stop."}
    /\ calls = <<>>

\* C10: whenever the path service fails for a vehicle, the display does not
\* fail: the path drawn and annotated for that vehicle is the straight-line
\* sequence of its stop coordinates in solver order, and the map with all
\* vehicles and the manifest are rendered.
C10_PathFailureDegradesGracefully ==
    \A failing \in SUBSET VehiclesOf(vrp_data) :
        LET shown == Visualization(vrp_data, depot, failing, errors)
        IN  \A vehicle_id \in failing :
                /\ ~shown.crashed
                /\ shown.map_shown
                /\ Len(shown.paths) = vrp_data[1].num_vehicles
                /\ shown.paths[vehicle_id + 1]
                       = VehicleRouteCoords(vrp_data[1], vehicle_id)
                /\ Len(shown.markers) = vrp_data[1].num_vehicles
                /\ shown.markers[vehicle_id + 1]
                       = get_interval_arrows(
                             VehicleRouteCoords(vrp_data[1], vehicle_id),
                             IntervalMeters).arrows
                /\ Len(shown.manifest) = vrp_data[1].num_vehicles

----------------------------------------------------------------------------
\* C5: for interval > 0, when get_interval_arrows returns, the number of
\* markers is floor(L / I) for the polyline's total length L, and may differ
\* from it by one only when L is an exact multiple of I (the boundary).
C5_MarkerCountIsFloor ==
    (a_pc = "returned" /\ interval_meters > 0) =>
        LET L == TotalLen(path)
            n == L \div interval_meters
        IN  \/ Len(arrows) = n
            \/ /\ L % interval_meters = 0
               /\ Abs(Len(arrows) - n) <= 1

\* C6: for interval > 0, every emitted marker has its interpolation ratio
\* remaining / seg_dist in [0, 1], and at the start of every segment the
\* accumulator satisfies 0 <= dist_accum <= interval.
C6_MarkerWithinSegment ==
    interval_meters > 0 =>
        /\ \A k \in 1..Len(ratios) :
              /\ ratios[k].seg_dist > 0
              /\ 0 <= ratios[k].remaining
              /\ ratios[k].remaining <= ratios[k].seg_dist
        /\ (a_pc = "loop" /\ seg_i < RangeLen(path)) =>
              (0 <= dist_accum /\ dist_accum <= interval_meters)

\* C7: for a straight polyline and interval > 0, the n-th emitted marker is at
\* arc length n * I: the length of the segments before the one in which it is
\* emitted plus ratio * seg_dist (= remaining, seg_dist being nonzero) is n * I,
\* and the marker's coordinate is n * I away from the polyline's first point.
C7_MarkerArcLength ==
    (interval_meters > 0 /\ Straight(path)) =>
        \A n \in 1..Len(arrows) :
            /\ ratios[n].seg_dist > 0
            /\ PrefixLen(path, ratios[n].seg) + ratios[n].remaining
                   = n * interval_meters
            /\ Abs(arrows[n][1] - path[1][1]) = n * interval_meters

\* C7 witness: a straight polyline on which two markers have been emitted, the
\* second one in a later segment than the first.
C7_Witness ==
    /\ interval_meters > 0
    /\ Straight(path)
    /\ a_pc = "returned"
    /\ Len(arrows) = 2
    /\ ratios[2].seg > ratios[1].seg

\* C8: a polyline of 0 or 1 points yields no marker and raises no error,
\* whatever the interval.
C8_DegenerateEmpty ==
    Len(path) < 2 => (a_pc # "raised" /\ arrows = <<>>)

\* C8 witness: the call has returned for a one-point polyline and an interval
\* that is not positive.
C8_Witness ==
    /\ Len(path) = 1
    /\ interval_meters <= 0
    /\ a_pc = "returned"

----------------------------------------------------------------------------
\* The messages of a plan action whose distance-matrix call or solver call failed.
PlanFailures == {"Distance Matrix Error", "No solution found."}

\* C11: when a plan action's distance-matrix call or solver call fails, the
\* run shows a user-visible error and shows no routes as successfully planned:
\* no success banner, no map routes and no manifest, whatever plan actions
\* preceded it in the session.
C11_FailedPlanShowsNoSuccess ==
    (errors \cap PlanFailures # {}) =>
        \A failing \in SUBSET VehiclesOf(vrp_data) :
            LET shown == Visualization(vrp_data, depot, failing, errors)
            IN  /\ ~shown.success
                /\ shown.paths = <<>>
                /\ shown.manifest = <<>>

----------------------------------------------------------------------------
\* C17: get_interval_arrows never divides by zero: for every polyline and
\* every interval > 0, the segment length seg_dist is strictly positive
\* whenever the marker branch computes ratio = remaining / seg_dist.
C17_NoDivisionByZero ==
    (/\ a_pc = "loop"
     /\ seg_i < RangeLen(path)
     /\ interval_meters > 0
     /\ seg_i + 2 <= Len(path)
     /\ dist_accum + haversine(path[seg_i + 1], path[seg_i + 2]) >= interval_meters)
        => haversine(path[seg_i + 1], path[seg_i + 2]) > 0

----------------------------------------------------------------------------
RECURSIVE ValidLines(_, _)
\* The lines of a list, in input order, that are not blank and for which the
\* geocoder gave a result.
ValidLines(raw_list, outcome) ==
    IF raw_list = <<>> THEN <<>>
    ELSE (IF ~Blank(Head(raw_list)) /\ Head(outcome) = "found"
          THEN <<Head(raw_list)>> ELSE <<>>)
         \o ValidLines(Tail(raw_list), Tail(outcome))

RECURSIVE FailedLines(_, _)
\* The lines of a list, in input order, that are not blank and for which the
\* geocoder gave an empty result or raised.
FailedLines(raw_list, outcome) ==
    IF raw_list = <<>> THEN <<>>
    ELSE (IF ~Blank(Head(raw_list)) /\ Head(outcome) \in {"empty", "exception"}
          THEN <<Head(raw_list)>> ELSE <<>>)
         \o FailedLines(Tail(raw_list), Tail(outcome))

\* C12: get_coordinates excludes exactly the lines that are blank or whose
\* geocoding fails (empty result or exception) and reports each failure by
\* itself; the returned addresses and coordinates have equal length, keep the
\* input order and correspond position by position; the run goes on to the
\* distance matrix if and only if at least 2 valid locations remain, and
\* otherwise aborts.
C12_SkipAndWarn ==
    geocoded # NoGeocoding =>
        /\ geocoded.addresses = ValidLines(geocoded.raw_list, geocoded.outcome)
        /\ Len(geocoded.coords) = Len(geocoded.addresses)
        /\ \A q \in 1..Len(geocoded.addresses) :
               geocoded.coords[q] = Place(geocoded.addresses[q]).coords
        /\ [q \in 1..Len(geocoded.reports) |-> geocoded.reports[q][2]]
               = FailedLines(geocoded.raw_list, geocoded.outcome)
        /\ (Len(geocoded.addresses) >= 2) <=>
               (/\ calls # <<>>
                /\ calls[1].fn = "create_distance_matrix"
                /\ calls[1].n = Len(geocoded.addresses))
        /\ Len(geocoded.addresses) < 2 =>
               /\ errors = {"Please enter at least 2 valid addresses."}
               /\ calls = <<>>
               /\ run_plan = <<>>

\* C12 witness: of three lines the second was not found; it was reported and
\* left out, and the run went on to the distance matrix with the other two.
C12_Witness ==
    /\ geocoded.raw_list = <<"a", "b", "b">>
    /\ geocoded.outcome = <<"found", "empty", "found">>
    /\ geocoded.addresses = <<"a", "b">>
    /\ geocoded.reports = <<(<<"Could not find", "b">>)>>
    /\ calls # <<>>

----------------------------------------------------------------------------
\* The position (1-based) of the first line of the text area that holds an
\* address: the depot the user designates in src/app.py; 0 when all are blank.
FirstAddressLine(raw_list) ==
    IF \A i \in 1..Len(raw_list) : Blank(raw_list[i]) THEN 0
    ELSE CHOOSE i \in 1..Len(raw_list) :
             /\ ~Blank(raw_list[i])
             /\ \A j \in 1..(i - 1) : Blank(raw_list[j])

\* C13: in every planning request the location at index 0 handed to the
\* distance matrix and the solver is the depot the user designated: the first
\* address of the list in src/app.py (the location at index 0 comes from that
\* line), the session depot in src/app3.py, whatever the geocoding outcomes
\* and whatever depot and stop actions came before.
C13_IndexZeroIsDepot ==
    /\ (app = "app" /\ calls # <<>>) =>
           /\ geocoded.outcome[FirstAddressLine(geocoded.raw_list)] = "found"
           /\ geocoded.addresses[1]
                  = geocoded.raw_list[FirstAddressLine(geocoded.raw_list)]
    /\ (app = "app3" /\ Len(calls) = 2 /\ errors = {}) =>
           /\ depot # <<>>
           /\ vrp_data # <<>>
           /\ vrp_data[1].names[1] = depot[1].name
           /\ vrp_data[1].addresses[1] = depot[1].address
           /\ vrp_data[1].coords[1] = depot[1].coords

----------------------------------------------------------------------------
\* A stored result all of whose parts come from one successful plan action:
\* names, addresses and coordinates of the same locations, a matrix of those
\* coordinates, and a solution of that matrix for the stored vehicle count.
ProducedByOnePlan(vd) ==
    /\ Len(vd.names) >= 2
    /\ Len(vd.addresses) = Len(vd.names)
    /\ Len(vd.coords) = Len(vd.names)
    /\ \A q \in 1..Len(vd.names) :
           /\ vd.addresses[q] = Place(vd.names[q]).address
           /\ vd.coords[q] = Place(vd.names[q]).coords
    /\ vd.matrix \in create_distance_matrix(vd.coords) \ {NoMatrix}
    /\ vd.num_vehicles \in VehicleInputs
    /\ vd.solution \in solve_vrp(vd.matrix, vd.num_vehicles) \ {NoSolution}

\* A step that alters the stored result is a successful plan action, and the
\* new result is that of the depot and stops of the session.
ReplacedBySuccessfulPlan ==
    vrp_data' # vrp_data =>
        /\ vrp_data' # <<>>
        /\ Len(calls') = 2
        /\ errors' = {}
        /\ vrp_data'[1].names = [q \in 1..(1 + Len(stops)) |-> (depot \o stops)[q].name]
        /\ ProducedByOnePlan(vrp_data'[1])

\* C14: in every reachable session state of src/app3.py the stored planning
\* result vrp_data is absent or has its names, addresses, coordinates,
\* solution and vehicle count all produced by one and the same successful plan
\* action: a successful solve replaces all of them together, and set-depot,
\* change-depot, add-stop, delete-stop and clear-stops never alter any of it.
C14_ResultReplacedWholesale ==
    /\ [](vrp_data # <<>> => ProducedByOnePlan(vrp_data[1]))
    /\ [][ReplacedBySuccessfulPlan]_vars

\* C14 witness: a result for depot "a" and stops "b", "a" is still stored,
\* whole, after the depot was unset and the stops were cleared.
C14_Witness ==
    /\ vrp_data # <<>>
    /\ vrp_data[1].names = <<"a", "b", "a">>
    /\ depot = <<>>
    /\ stops = <<>>

----------------------------------------------------------------------------
\* Every way of giving all stops to the k vehicles has a tour longer than
\* the capacity of the 'Distance' dimension.
CapacityUnavoidable(D, k) ==
    \A rs \in AllRoutings(Len(D), k) :
        \E v \in 1..k : SumLegs(D, Tour(rs[v])) > DimensionCapacity

\* Every pair of locations is reachable: no matrix element is the sentinel.
AllReachable(D) ==
    \A i, j \in 1..Len(D) : D[i][j] # Unreachable

\* C16: every route of every solution returned by solve_vrp has a total
\* distance of at most 3,000,000 meters, the capacity of the 'Distance'
\* dimension; when no assignment of all stops keeps every vehicle's route
\* within that bound, solve_vrp returns no solution, also when every pair of
\* locations is reachable.
C16_RoutesWithinCapacity ==
    /\ s_pc \in {"solved", "mapped", "done"} =>
           \A v \in 0..(num_vehicles - 1) :
               SumLegs(dist_matrix,
                       ExtractRoute(solution, Len(dist_matrix), num_vehicles, v))
                   <= DimensionCapacity
    /\ s_pc = "done" =>
           \A v \in 1..num_vehicles : route_distance[v] <= DimensionCapacity
    /\ (s_pc \notin {"idle", "request"}
          /\ CapacityUnavoidable(dist_matrix, num_vehicles))
           => s_pc = "no_solution"

\* C16 witness: a depot and one stop, far from each other both ways but
\* reachable, and two vehicles: the round trip exceeds the capacity whichever
\* vehicle makes it, and solve_vrp returned no solution.
C16_Witness ==
    /\ s_pc = "no_solution"
    /\ Len(dist_matrix) = 2
    /\ num_vehicles = 2
    /\ AllReachable(dist_matrix)
    /\ dist_matrix[1][2] = FarMeters
    /\ dist_matrix[2][1] = FarMeters
    /\ CapacityUnavoidable(dist_matrix, num_vehicles)

=============================================================================
